---- MODULE Spec2Model ----
\* A model of queries.js: main() opens a connection, runs Tasks 2-5 against
\* the books collection one awaited store call after the other, and closes the
\* connection in a finally block.
\*
\* The document store is the program's environment.  Its operations are
\* modelled by their documented behaviour; where the store documents no
\* behaviour (the relative order of records with equal sort keys) the model
\* takes every order the store may return.  Prices are kept in cents
\* (15.99 is 1599) so that arithmetic stays exact.
EXTENDS Integers, Sequences, FiniteSets, TLC

\* ------------------------------------------------------------ bounds
\* Number of candidate records the initial collection is drawn from.
NumSeed == 8
\* Largest executionTimeMillis an explain result reports.
MaxMillis == 0

\* ------------------------------------------------- program constants
HobbitPrice == 1599
YearAfter == 1950
YearBefore == 1950
Page1Skip == 0
Page2Skip == 5
PageSize == 5
TopAuthors == 1
DecadeWidth == 10

\* ------------------------------------------------------- sample data
\* Candidate records.  The tables are cycled so that the candidates contain
\* repeated titles, repeated publication years under different titles, a
\* Hobbit that already costs 15.99, and several authors and genres.
TitleTable == <<"The Hobbit", "Moby Dick", "1984", "Animal Farm", "The Alchemist", "Brave New World">>
AuthorTable == <<"J.R.R. Tolkien", "Herman Melville", "George Orwell", "George Orwell", "Paulo Coelho", "Aldous Huxley">>
GenreTable == <<"Fantasy", "Fiction", "Dystopian">>
YearTable == <<1949, 1937, 1949, 1951>>
PriceTable == <<1250, 999, 1599, 1250>>

Cyc(table, i) == table[((i - 1) % Len(table)) + 1]

Book(i) ==
    [_id |-> i,
     title |-> Cyc(TitleTable, i),
     author |-> Cyc(AuthorTable, i),
     genre |-> Cyc(GenreTable, i),
     published_year |-> Cyc(YearTable, i),
     price |-> Cyc(PriceTable, i),
     in_stock |-> (i % 2 = 1)]

RECURSIVE SeedSeq(_, _)
\* The records of Book(i), i \in ids, in increasing order of i (insertion order).
SeedSeq(ids, i) ==
    IF i > NumSeed THEN <<>>
    ELSE (IF i \in ids THEN <<Book(i)>> ELSE <<>>) \o SeedSeq(ids, i + 1)

\* ----------------------------------------------------- store: queries
Range(s) == {s[i] : i \in 1..Len(s)}

Min(a, b) == IF a < b THEN a ELSE b

\* A filter is a sequence of conditions [field, op, value]; all must hold.
Holds(d, c) ==
    CASE c.op = "eq" -> d[c.field] = c.value
      [] c.op = "gt" -> d[c.field] > c.value
      [] c.op = "lt" -> d[c.field] < c.value

Matches(d, filter) == \A k \in 1..Len(filter) : Holds(d, filter[k])

\* find(filter).toArray() without a sort: the matching records in natural order.
Find(coll, filter) == SelectSeq(coll, LAMBDA d : Matches(d, filter))

\* findOne(filter): the first matching record, or null.
Null == [null |-> TRUE]

FindOne(coll, filter) ==
    LET hits == Find(coll, filter)
    IN  IF hits = <<>> THEN Null ELSE Head(hits)

\* .project({f: 1, ..., _id: 0}): only the named fields of every record.
Project(s, fields) == [i \in 1..Len(s) |-> [f \in fields |-> s[i][f]]]

\* .skip(n) and .limit(n) on a result sequence.
Skip(s, n) == SubSeq(s, n + 1, Len(s))

Limit(s, n) == SubSeq(s, 1, Min(n, Len(s)))

RECURSIVE Orderings(_, _)
\* Every sequence that holds each member of S once and respects le; members
\* that le ranks equal come in any order.
Orderings(S, le) ==
    IF S = {} THEN {<<>>}
    ELSE UNION {{<<d>> \o t : t \in Orderings(S \ {d}, le)} :
                d \in {x \in S : \A y \in S : le[x, y]}}

\* .sort({field: dir}): the results the store may return.
SortBy(S, field, dir) ==
    Orderings(S, [x \in S, y \in S |-> dir * x[field] <= dir * y[field]])

\* ----------------------------------------------------- store: writes
\* $set: the patch's fields replace or extend the record's.
ApplySet(d, patch) ==
    [f \in (DOMAIN d) \cup (DOMAIN patch) |->
        IF f \in DOMAIN patch THEN patch[f] ELSE d[f]]

FirstMatch(coll, filter) ==
    LET hits == {i \in 1..Len(coll) : Matches(coll[i], filter)}
    IN  IF hits = {} THEN 0 ELSE CHOOSE i \in hits : \A j \in hits : i <= j

\* updateOne(filter, {$set: patch}): the collection afterwards and the counts.
UpdateOne(coll, filter, patch) ==
    LET i == FirstMatch(coll, filter)
    IN  IF i = 0
        THEN [books |-> coll, matchedCount |-> 0, modifiedCount |-> 0]
        ELSE [books |-> [coll EXCEPT ![i] = ApplySet(coll[i], patch)],
              matchedCount |-> 1,
              modifiedCount |-> IF ApplySet(coll[i], patch) = coll[i] THEN 0 ELSE 1]

\* A variant of DeleteOne that removes every matching record (deleteMany).
DeleteMany(coll, filter) ==
    [books |-> SelectSeq(coll, LAMBDA d : ~Matches(d, filter)),
     deletedCount |-> Len(Find(coll, filter))]

\* deleteOne(filter): the collection afterwards and the count.
DeleteOne(coll, filter) ==
    LET i == FirstMatch(coll, filter)
    IN  IF i = 0
        THEN [books |-> coll, deletedCount |-> 0]
        ELSE [books |-> SubSeq(coll, 1, i - 1) \o SubSeq(coll, i + 1, Len(coll)),
              deletedCount |-> 1]

\* ------------------------------------------------ store: aggregation
RECURSIVE SumPrice(_, _)
SumPrice(coll, ids) ==
    IF ids = {} THEN 0
    ELSE LET i == CHOOSE j \in ids : TRUE
         IN  coll[i].price + SumPrice(coll, ids \ {i})

\* $group {_id: "$genre", averagePrice: {$avg: "$price"}, bookCount: {$sum: 1}}.
\* The average is kept as the exact fraction num/den.
GenreGroups(coll) ==
    {LET ids == {i \in 1..Len(coll) : coll[i].genre = g}
     IN  [_id |-> g,
          averagePrice |-> [num |-> SumPrice(coll, ids), den |-> Cardinality(ids)],
          bookCount |-> Cardinality(ids)] :
     g \in {coll[i].genre : i \in 1..Len(coll)}}

\* $sort {averagePrice: -1} over the genre groups.
AvgPriceByGenre(coll) ==
    LET G == GenreGroups(coll)
    IN  Orderings(G, [x \in G, y \in G |->
            x.averagePrice.num * y.averagePrice.den
                >= y.averagePrice.num * x.averagePrice.den])

\* $group {_id: "$author", numberOfBooks: {$sum: 1}}.
AuthorGroups(coll) ==
    {[_id |-> a,
      numberOfBooks |-> Cardinality({i \in 1..Len(coll) : coll[i].author = a})] :
     a \in {coll[i].author : i \in 1..Len(coll)}}

\* A variant of AuthorWithMostBooks that sorts ascending.
AuthorWithMostBooksAscending(coll) ==
    {Limit(s, TopAuthors) : s \in SortBy(AuthorGroups(coll), "numberOfBooks", 1)}

\* $sort {numberOfBooks: -1}, $limit 1.
AuthorWithMostBooks(coll) ==
    {Limit(s, TopAuthors) : s \in SortBy(AuthorGroups(coll), "numberOfBooks", -1)}

\* $subtract ["$published_year", {$mod: ["$published_year", 10]}].
Decade(d) == d.published_year - (d.published_year % DecadeWidth)

\* $group {_id: <decade>, count: {$sum: 1}}.
DecadeGroups(coll) ==
    {[_id |-> k,
      count |-> Cardinality({i \in 1..Len(coll) : Decade(coll[i]) = k})] :
     k \in {Decade(coll[i]) : i \in 1..Len(coll)}}

\* $sort {_id: 1}, $project {decade: "$_id", count: 1, _id: 0}.
BooksByDecade(coll) ==
    {[i \in 1..Len(s) |-> [decade |-> s[i]._id, count |-> s[i].count]] :
     s \in SortBy(DecadeGroups(coll), "_id", 1)}

\* --------------------------------------------- store: indexes, explain
TitleIndex == <<[field |-> "title", dir |-> 1]>>

CompoundIndex == <<[field |-> "author", dir |-> 1], [field |-> "published_year", dir |-> -1]>>

\* An index serves a filter that constrains the index's leading field.
Usable(index, filter) == \E k \in 1..Len(filter) : filter[k].field = index[1].field

\* find(filter).explain("executionStats") of the classic query engine: EOF for
\* a collection that does not exist, FETCH over IXSCAN when an index serves
\* the filter, COLLSCAN otherwise.
Explain(coll, present, idx, filter, millis) ==
    LET usable == {ix \in idx : Usable(ix, filter)}
        stages == IF ~present THEN [stage |-> "EOF"]
                  ELSE IF usable # {}
                       THEN [stage |-> "FETCH", inputStage |-> [stage |-> "IXSCAN"]]
                       ELSE [stage |-> "COLLSCAN"]
        examined == IF ~present THEN 0
                    ELSE IF usable # {} THEN Len(Find(coll, filter))
                         ELSE Len(coll)
    IN  [executionStats |->
            [executionTimeMillis |-> millis,
             totalDocsExamined |-> examined,
             executionStages |-> stages]]

\* ------------------------------------------------------------ console
\* printResult: an empty array prints the notice, anything else its value.
printResult(title, result, isArray) ==
    [title |-> title,
     body |-> IF isArray /\ Len(result) = 0 THEN "No documents found." ELSE result]

\* A variant of analyzePlan that reads the top-level stage without descending.
analyzePlanNoDescent(title, explainPlan) ==
    LET stats == explainPlan.executionStats
        winningStage == stats.executionStages
    IN  [title |-> title,
         executionTime |-> stats.executionTimeMillis,
         documentsExamined |-> stats.totalDocsExamined,
         winningStage |-> winningStage.stage,
         scanStage |-> winningStage.stage,
         analysis |-> IF winningStage.stage = "IXSCAN"
                      THEN <<"index scan (IXSCAN)">>
                      ELSE IF winningStage.stage = "COLLSCAN"
                           THEN <<"collection scan (COLLSCAN)">>
                           ELSE <<>>]

\* analyzePlan: the lines it writes for one explain result.
analyzePlan(title, explainPlan) ==
    LET stats == explainPlan.executionStats
        winningStage == stats.executionStages
        scanStage == IF "inputStage" \in DOMAIN winningStage
                     THEN winningStage.inputStage ELSE winningStage
    IN  [title |-> title,
         executionTime |-> stats.executionTimeMillis,
         documentsExamined |-> stats.totalDocsExamined,
         winningStage |-> winningStage.stage,
         scanStage |-> scanStage.stage,
         analysis |-> IF scanStage.stage = "IXSCAN"
                      THEN <<"index scan (IXSCAN)">>
                      ELSE IF scanStage.stage = "COLLSCAN"
                           THEN <<"collection scan (COLLSCAN)">>
                           ELSE <<>>]

\* ------------------------------------------- the queries of the tasks
FictionFilter == <<[field |-> "genre", op |-> "eq", value |-> "Fiction"]>>

RecentFilter == <<[field |-> "published_year", op |-> "gt", value |-> YearAfter]>>

OrwellFilter == <<[field |-> "author", op |-> "eq", value |-> "George Orwell"]>>

HobbitFilter == <<[field |-> "title", op |-> "eq", value |-> "The Hobbit"]>>

\* A variant of HobbitPatch that misspells the field.
HobbitPatchMisspelt == [Price |-> HobbitPrice]

HobbitPatch == [price |-> HobbitPrice]

\* A variant of MobyFilter that misspells the title.
MobyFilterMisspelt == <<[field |-> "title", op |-> "eq", value |-> "Moby-Dick"]>>

MobyFilter == <<[field |-> "title", op |-> "eq", value |-> "Moby Dick"]>>

InStockRecentFilter ==
    <<[field |-> "in_stock", op |-> "eq", value |-> TRUE],
      [field |-> "published_year", op |-> "gt", value |-> YearAfter]>>

ExplainTitleFilter == <<[field |-> "title", op |-> "eq", value |-> "1984"]>>

ExplainCompoundFilter ==
    <<[field |-> "author", op |-> "eq", value |-> "George Orwell"],
      [field |-> "published_year", op |-> "lt", value |-> YearBefore]>>

\* One page: sort by published_year ascending, skip, limit, project.
Page(coll, skip) ==
    {Project(Limit(Skip(s, skip), PageSize), {"title", "published_year"}) :
     s \in SortBy(Range(coll), "published_year", 1)}

\* ------------------------------------------------------------- state
VARIABLES
    pc,                   \* the store call main() issues next
    client,               \* "new", "open" or "closed"
    books,                \* the collection, in natural order
    present,              \* whether the collection exists in the database
    indexes,              \* the key specifications of the collection's indexes
                          \* (none at first, or both, left by an earlier run)
    issued,               \* the store calls issued so far, in order
    thrown,               \* the call whose failure left the try block, or "none"
    stderr,               \* what console.error has written
    out,                  \* the last thing written to stdout
    updateResult, updatedHobbit, deleteResult,               \* locals of runTask2
    page1, page2,                                            \* locals of runTask3
    avgPriceByGenre, authorWithMostBooks, booksByDecade,     \* locals of runTask4
    explainPlan,                                             \* local of runTask5
    books0,               \* history: the collection main() started with
    prev                  \* history: the collection before the last write call

store == <<books, present, indexes>>
task2 == <<updateResult, updatedHobbit, deleteResult>>
task3 == <<page1, page2>>
task4 == <<avgPriceByGenre, authorWithMostBooks, booksByDecade>>
task5 == <<explainPlan>>
hist == <<books0, prev>>
vars == <<pc, client, store, issued, thrown, stderr, out, task2, task3, task4, task5, hist>>

\* A local that holds no value (not yet assigned, or its frame has returned).
Unset == [unset |-> TRUE]

NoTask2 == updateResult' = Unset /\ updatedHobbit' = Unset /\ deleteResult' = Unset
NoTask3 == page1' = <<>> /\ page2' = <<>>
NoTask4 == avgPriceByGenre' = <<>> /\ authorWithMostBooks' = <<>> /\ booksByDecade' = <<>>
NoTask5 == explainPlan' = Unset

\* The store calls of the try block, in the order main() reaches them.
Program ==
    <<"connect",
      "fictionBooks", "recentBooks", "orwellBooks", "updateResult", "updatedHobbit", "deleteResult",
      "inStockAndRecent", "projectedBooks", "sortedAsc", "sortedDesc", "page1", "page2",
      "avgPriceByGenre", "authorWithMostBooks", "booksByDecade",
      "titleIndexResult", "compoundIndexResult", "explainTitleSearch", "explainCompoundSearch">>

Pos(op) == CHOOSE k \in 1..Len(Program) : Program[k] = op

\* Where control goes when the call op has been dealt with.
After(op) == IF Pos(op) = Len(Program) THEN "finally" ELSE Program[Pos(op) + 1]

Log(line) == [title |-> line, body |-> ""]

Init ==
    /\ pc = "connect"
    /\ client = "new"
    /\ \E ids \in SUBSET (1..NumSeed) : books = SeedSeq(ids, 1)
    /\ indexes \in {{}, {TitleIndex, CompoundIndex}}
    /\ present \in (IF books = <<>> /\ indexes = {} THEN BOOLEAN ELSE {TRUE})
    /\ issued = <<>>
    /\ thrown = "none"
    /\ stderr = <<>>
    /\ out = Log("")
    /\ updateResult = Unset /\ updatedHobbit = Unset /\ deleteResult = Unset
    /\ page1 = <<>> /\ page2 = <<>>
    /\ avgPriceByGenre = <<>> /\ authorWithMostBooks = <<>> /\ booksByDecade = <<>>
    /\ explainPlan = Unset
    /\ books0 = books
    /\ prev = books

\* A variant of Throw in which the failure is logged where it happens and the
\* workflow goes on with the next call.
ThrowSwallowed(op) ==
    /\ pc' = After(op)
    /\ thrown' = op
    /\ issued' = Append(issued, op)
    /\ stderr' = Append(stderr, [by |-> "An error occurred:", error |-> op])
    /\ UNCHANGED <<client, store, out, hist, task2, task3, task4, task5>>

\* An awaited call rejects: the frames of the running task unwind and control
\* reaches the catch block of main().
Throw(op) ==
    /\ pc' = "catch"
    /\ thrown' = op
    /\ issued' = Append(issued, op)
    /\ NoTask2 /\ NoTask3 /\ NoTask4 /\ NoTask5
    /\ UNCHANGED <<client, store, stderr, out, hist>>

\* A read call resolves and its result is printed.
Printed(op, title, result, isArray) ==
    /\ pc' = After(op)
    /\ issued' = Append(issued, op)
    /\ out' = printResult(title, result, isArray)
    /\ UNCHANGED <<client, store, thrown, stderr, hist>>

Connect ==
    /\ pc = "connect"
    /\ \/ /\ pc' = After("connect")
          /\ issued' = Append(issued, "connect")
          /\ client' = "open"
          /\ out' = Log("Connected successfully to MongoDB server")
          /\ UNCHANGED <<store, thrown, stderr, task2, task3, task4, task5, hist>>
       \/ Throw("connect")

\* ---------------------------------------------------------- runTask2
FindFiction ==
    /\ pc = "fictionBooks"
    /\ \/ /\ Printed("fictionBooks", "Task 2.1", Find(books, FictionFilter), TRUE)
          /\ UNCHANGED <<task2, task3, task4, task5>>
       \/ Throw("fictionBooks")

FindRecent ==
    /\ pc = "recentBooks"
    /\ \/ /\ Printed("recentBooks", "Task 2.2", Find(books, RecentFilter), TRUE)
          /\ UNCHANGED <<task2, task3, task4, task5>>
       \/ Throw("recentBooks")

FindOrwell ==
    /\ pc = "orwellBooks"
    /\ \/ /\ Printed("orwellBooks", "Task 2.3", Find(books, OrwellFilter), TRUE)
          /\ UNCHANGED <<task2, task3, task4, task5>>
       \/ Throw("orwellBooks")

UpdateHobbit ==
    /\ pc = "updateResult"
    /\ \/ LET r == UpdateOne(books, HobbitFilter, HobbitPatch)
              res == [matchedCount |-> r.matchedCount, modifiedCount |-> r.modifiedCount]
          IN  /\ pc' = After("updateResult")
              /\ issued' = Append(issued, "updateResult")
              /\ books' = r.books
              /\ prev' = books
              /\ updateResult' = res
              /\ out' = printResult("Task 2.4: Update", res, FALSE)
              /\ UNCHANGED <<client, present, indexes, thrown, stderr, books0,
                             updatedHobbit, deleteResult, task3, task4, task5>>
       \/ Throw("updateResult")

VerifyHobbit ==
    /\ pc = "updatedHobbit"
    /\ \/ /\ Printed("updatedHobbit", "Task 2.4: Verifying", FindOne(books, HobbitFilter), FALSE)
          /\ updatedHobbit' = FindOne(books, HobbitFilter)
          /\ UNCHANGED <<updateResult, deleteResult, task3, task4, task5>>
       \/ Throw("updatedHobbit")

DeleteMoby ==
    /\ pc = "deleteResult"
    /\ \/ LET r == DeleteOne(books, MobyFilter)
              res == [deletedCount |-> r.deletedCount]
          IN  /\ pc' = After("deleteResult")
              /\ issued' = Append(issued, "deleteResult")
              /\ books' = r.books
              /\ prev' = books
              /\ deleteResult' = res
              /\ out' = printResult("Task 2.5", res, FALSE)
              /\ UNCHANGED <<client, present, indexes, thrown, stderr, books0,
                             updateResult, updatedHobbit, task3, task4, task5>>
       \/ Throw("deleteResult")

\* ---------------------------------------------------------- runTask3
FindInStockRecent ==
    /\ pc = "inStockAndRecent"
    /\ \/ /\ Printed("inStockAndRecent", "Task 3.1", Find(books, InStockRecentFilter), TRUE)
          /\ NoTask2
          /\ UNCHANGED <<task3, task4, task5>>
       \/ Throw("inStockAndRecent")

ProjectBooks ==
    /\ pc = "projectedBooks"
    /\ \/ /\ Printed("projectedBooks", "Task 3.2",
                     Project(Find(books, <<>>), {"title", "author", "price"}), TRUE)
          /\ UNCHANGED <<task2, task3, task4, task5>>
       \/ Throw("projectedBooks")

SortAsc ==
    /\ pc = "sortedAsc"
    /\ \/ /\ \E s \in SortBy(Range(books), "price", 1) :
                Printed("sortedAsc", "Task 3.3: ascending", Project(s, {"title", "price"}), TRUE)
          /\ UNCHANGED <<task2, task3, task4, task5>>
       \/ Throw("sortedAsc")

SortDesc ==
    /\ pc = "sortedDesc"
    /\ \/ /\ \E s \in SortBy(Range(books), "price", -1) :
                Printed("sortedDesc", "Task 3.3: descending", Project(s, {"title", "price"}), TRUE)
          /\ UNCHANGED <<task2, task3, task4, task5>>
       \/ Throw("sortedDesc")

FetchPage1 ==
    /\ pc = "page1"
    /\ \/ /\ \E p \in Page(books, Page1Skip) :
                /\ Printed("page1", "Task 3.4: Page 1", p, TRUE)
                /\ page1' = p
          /\ UNCHANGED <<task2, page2, task4, task5>>
       \/ Throw("page1")

FetchPage2 ==
    /\ pc = "page2"
    /\ \/ /\ \E p \in Page(books, Page2Skip) :
                /\ Printed("page2", "Task 3.4: Page 2", p, TRUE)
                /\ page2' = p
          /\ UNCHANGED <<task2, page1, task4, task5>>
       \/ Throw("page2")

\* ---------------------------------------------------------- runTask4
AggregateGenre ==
    /\ pc = "avgPriceByGenre"
    /\ \/ /\ \E r \in AvgPriceByGenre(books) :
                /\ Printed("avgPriceByGenre", "Task 4.1", r, TRUE)
                /\ avgPriceByGenre' = r
          /\ NoTask3
          /\ UNCHANGED <<task2, authorWithMostBooks, booksByDecade, task5>>
       \/ Throw("avgPriceByGenre")

AggregateAuthor ==
    /\ pc = "authorWithMostBooks"
    /\ \/ /\ \E r \in AuthorWithMostBooks(books) :
                /\ Printed("authorWithMostBooks", "Task 4.2", r, TRUE)
                /\ authorWithMostBooks' = r
          /\ UNCHANGED <<task2, task3, avgPriceByGenre, booksByDecade, task5>>
       \/ Throw("authorWithMostBooks")

AggregateDecade ==
    /\ pc = "booksByDecade"
    /\ \/ /\ \E r \in BooksByDecade(books) :
                /\ Printed("booksByDecade", "Task 4.3", r, TRUE)
                /\ booksByDecade' = r
          /\ UNCHANGED <<task2, task3, avgPriceByGenre, authorWithMostBooks, task5>>
       \/ Throw("booksByDecade")

\* ---------------------------------------------------------- runTask5
\* createIndex resolves: the index exists afterwards (creating it again
\* changes nothing) and so does the collection.
IndexCreated(op, keys, line) ==
    /\ pc' = After(op)
    /\ issued' = Append(issued, op)
    /\ indexes' = indexes \cup {keys}
    /\ present' = TRUE
    /\ out' = Log(line)
    /\ UNCHANGED <<client, books, thrown, stderr, hist>>

\* A variant of IndexFailed without the local catch: the failure leaves the task.
IndexFailedPropagates(op, line) ==
    /\ pc' = "catch"
    /\ thrown' = op
    /\ issued' = Append(issued, op)
    /\ UNCHANGED <<client, store, stderr, out, hist>>

\* createIndex rejects: the catch block beside the call logs the message.
IndexFailed(op, line) ==
    /\ pc' = After(op)
    /\ issued' = Append(issued, op)
    /\ stderr' = Append(stderr, [by |-> line, error |-> op])
    /\ UNCHANGED <<client, store, thrown, out, hist>>

CreateTitleIndex ==
    /\ pc = "titleIndexResult"
    /\ \/ IndexCreated("titleIndexResult", TitleIndex, "Task 5.1: Index on 'title' created successfully")
       \/ IndexFailed("titleIndexResult", "Error creating title index:")
    /\ NoTask4
    /\ UNCHANGED <<task2, task3, task5>>

CreateCompoundIndex ==
    /\ pc = "compoundIndexResult"
    /\ \/ IndexCreated("compoundIndexResult", CompoundIndex, "Task 5.2: Compound index created successfully")
       \/ IndexFailed("compoundIndexResult", "Error creating compound index:")
    /\ UNCHANGED <<task2, task3, task4, task5>>

\* An explain call resolves and analyzePlan reports on its result.
Analyzed(op, title, filter) ==
    \E millis \in 0..MaxMillis :
        LET plan == Explain(books, present, indexes, filter, millis)
        IN  /\ pc' = After(op)
            /\ issued' = Append(issued, op)
            /\ explainPlan' = plan
            /\ out' = analyzePlan(title, plan)
            /\ UNCHANGED <<client, store, thrown, stderr, hist, task2, task3, task4>>

ExplainTitle ==
    /\ pc = "explainTitleSearch"
    /\ \/ Analyzed("explainTitleSearch", "Explain plan for query on indexed 'title' field",
                   ExplainTitleFilter)
       \/ Throw("explainTitleSearch")

ExplainCompound ==
    /\ pc = "explainCompoundSearch"
    /\ \/ Analyzed("explainCompoundSearch", "Explain plan for query on compound indexed fields",
                   ExplainCompoundFilter)
       \/ Throw("explainCompoundSearch")

\* -------------------------------------------------------------- main
\* A variant of Catch for a main() that closes the connection inside the try
\* block only: after a failure nothing closes it.
CatchWithoutFinally ==
    /\ pc = "catch"
    /\ pc' = "done"
    /\ stderr' = Append(stderr, [by |-> "An error occurred:", error |-> thrown])
    /\ UNCHANGED <<client, store, issued, thrown, out, task2, task3, task4, task5, hist>>

\* catch (err): the failure is printed.
Catch ==
    /\ pc = "catch"
    /\ pc' = "finally"
    /\ stderr' = Append(stderr, [by |-> "An error occurred:", error |-> thrown])
    /\ UNCHANGED <<client, store, issued, thrown, out, task2, task3, task4, task5, hist>>

\* finally: the connection is closed.  If close() itself rejects, main()
\* rejects and the handler attached to main() prints the failure.
Finally ==
    /\ pc = "finally"
    /\ pc' = "done"
    /\ issued' = Append(issued, "close")
    /\ \/ /\ client' = "closed"
          /\ out' = Log("Connection to MongoDB closed.")
          /\ UNCHANGED stderr
       \/ /\ stderr' = Append(stderr, [by |-> "main().catch", error |-> "close"])
          /\ UNCHANGED <<client, out>>
    /\ NoTask5
    /\ UNCHANGED <<store, thrown, task2, task3, task4, hist>>

Next ==
    \/ Connect
    \/ FindFiction \/ FindRecent \/ FindOrwell \/ UpdateHobbit \/ VerifyHobbit \/ DeleteMoby
    \/ FindInStockRecent \/ ProjectBooks \/ SortAsc \/ SortDesc \/ FetchPage1 \/ FetchPage2
    \/ AggregateGenre \/ AggregateAuthor \/ AggregateDecade
    \/ CreateTitleIndex \/ CreateCompoundIndex \/ ExplainTitle \/ ExplainCompound
    \/ Catch \/ Finally

Spec == Init /\ [][Next]_vars

\* ------------------------------------------------- properties: helpers
Count(s, x) == Cardinality({i \in 1..Len(s) : s[i] = x})

Last(s) == s[Len(s)]

TitleCount(coll, t) == Cardinality({i \in 1..Len(coll) : coll[i].title = t})

\* What the catch block of main() has printed.
MainErrors == SelectSeq(stderr, LAMBDA e : e.by = "An error occurred:")

\* What the catch blocks beside the createIndex calls have printed.
IndexErrors == SelectSeq(stderr, LAMBDA e : e.by \in {"Error creating title index:", "Error creating compound index:"})

IndexCalls == {"titleIndexResult", "compoundIndexResult"}

\* ------------------------------------------------------ C1, C2, C3
\* C1: in every execution of main() client.close() is called exactly once,
\* after the last store call that was issued, and no store call follows it:
\* the run ends only after the close, the close is the last call issued, and
\* no state short of the end is stuck.
C1_CloseExactlyOnceAndLast ==
    /\ Count(issued, "close") <= 1
    /\ (pc = "done") <=> (Count(issued, "close") = 1)
    /\ Count(issued, "close") = 1 => Last(issued) = "close"
    /\ pc # "done" => ENABLED Next

\* C1 witness: a run that failed in the middle of Task 3 has ended, closed.
C1_Witness ==
    /\ pc = "done"
    /\ thrown = "sortedAsc"
    /\ issued = SubSeq(Program, 1, Pos("sortedAsc")) \o <<"close">>

\* C2: when a store call other than an index creation fails, no later call of
\* the workflow is issued: the calls issued are the program's calls up to the
\* failed one, followed by nothing but the close, and the catch block of
\* main() prints the failure exactly once.
C2_FailureAbortsWorkflow ==
    (thrown # "none" /\ thrown \notin IndexCalls) =>
        /\ issued \in {SubSeq(Program, 1, Pos(thrown)),
                       SubSeq(Program, 1, Pos(thrown)) \o <<"close">>}
        /\ MainErrors = IF pc = "catch" THEN <<>>
                        ELSE <<[by |-> "An error occurred:", error |-> thrown]>>

\* C2 witness: the price update failed; the run ended with the close as the
\* only later call and one printed failure.
C2_Witness ==
    /\ pc = "done"
    /\ thrown = "updateResult"
    /\ Last(issued) = "close"
    /\ Len(MainErrors) = 1

\* C3: a failure of either createIndex call is caught beside the call and
\* logged; control goes on to the next call of Task 5, the failure never
\* reaches the catch block of main(), and a run in which nothing else failed
\* issues every call of the program, both explain calls included.
C3_IndexFailureIsLocal ==
    /\ thrown \notin IndexCalls
    /\ \A op \in IndexCalls : (issued # <<>> /\ Last(issued) = op) => pc = After(op)
    /\ \A k \in 1..Len(IndexErrors) : IndexErrors[k].error \in Range(issued)
    /\ (pc = "done" /\ thrown = "none") =>
            /\ issued = Program \o <<"close">>
            /\ MainErrors = <<>>

\* C3 witness: both index creations failed and the run still issued both
\* explain calls and ended without reaching the catch block of main().
C3_Witness ==
    /\ pc = "done"
    /\ thrown = "none"
    /\ Len(IndexErrors) = 2
    /\ Count(issued, "explainTitleSearch") = 1
    /\ Count(issued, "explainCompoundSearch") = 1

\* --------------------------------------------------------------- C4
\* C4: for every collection content, page 1 followed by page 2 equals the
\* first 10 records of the collection sorted by published_year ascending
\* (as projected on title and published_year): checked when page 2 has
\* just been fetched.
C4_PagesAreTheFirstTen ==
    pc = "avgPriceByGenre" =>
        \E s \in SortBy(Range(books), "published_year", 1) :
            page1 \o page2 = Project(Limit(s, Page2Skip + PageSize), {"title", "published_year"})

\* --------------------------------------------------------------- C5
RECURSIVE SumField(_, _)
SumField(s, f) == IF s = <<>> THEN 0 ELSE Head(s)[f] + SumField(Tail(s), f)

AuthorCount(coll, a) == Cardinality({i \in 1..Len(coll) : coll[i].author = a})

\* C5 as stated: for each of the three aggregations the per-group counts of
\* the result the task produces add up to the number of records.
C5_EveryResultSumsToTotal ==
    /\ pc = "authorWithMostBooks" => SumField(avgPriceByGenre, "bookCount") = Len(books)
    /\ pc = "booksByDecade" => SumField(authorWithMostBooks, "numberOfBooks") = Len(books)
    /\ pc = "titleIndexResult" => SumField(booksByDecade, "count") = Len(books)

\* C5 as amended: the counts of the by-genre and the by-decade result add up
\* to the number of records; the by-author result is cut to one group, the
\* one of an author with the most records, so its count is the largest
\* per-author count, and it is empty when the collection is.
C5_GenreAndDecadeSumToTotal ==
    /\ pc = "authorWithMostBooks" => SumField(avgPriceByGenre, "bookCount") = Len(books)
    /\ pc = "booksByDecade" =>
            IF books = <<>> THEN authorWithMostBooks = <<>>
            ELSE /\ Len(authorWithMostBooks) = 1
                 /\ authorWithMostBooks[1].numberOfBooks
                        = AuthorCount(books, authorWithMostBooks[1]._id)
                 /\ \A i \in 1..Len(books) :
                        AuthorCount(books, books[i].author)
                            <= authorWithMostBooks[1].numberOfBooks
    /\ pc = "titleIndexResult" => SumField(booksByDecade, "count") = Len(books)

\* C5 witness: Task 4 has run on a collection with several genres, authors
\* and decades, and the by-author result counts fewer records than exist.
C5_Witness ==
    /\ pc = "titleIndexResult"
    /\ Len(avgPriceByGenre) >= 2
    /\ Len(booksByDecade) >= 2
    /\ Len(authorWithMostBooks) = 1
    /\ authorWithMostBooks[1].numberOfBooks >= 2
    /\ authorWithMostBooks[1].numberOfBooks < Len(books)

\* --------------------------------------------------------------- C6
Deleted == "deleteResult" \in Range(issued) /\ thrown # "deleteResult"

\* C6: when exactly one record has title 'Moby Dick' the delete removes that
\* record and no other (count 1, one record fewer, the others unchanged and
\* in place) and no later state holds a record of that title; when none has,
\* the count is 0 and the collection is unchanged.
C6_DeleteRemovesExactlyTheMatch ==
    /\ (pc = "inStockAndRecent" /\ TitleCount(prev, "Moby Dick") = 1) =>
            /\ deleteResult.deletedCount = 1
            /\ Len(books) = Len(prev) - 1
            /\ books = SelectSeq(prev, LAMBDA d : d.title # "Moby Dick")
    /\ (pc = "inStockAndRecent" /\ TitleCount(prev, "Moby Dick") = 0) =>
            /\ deleteResult.deletedCount = 0
            /\ books = prev
    /\ (Deleted /\ TitleCount(prev, "Moby Dick") <= 1) =>
            /\ TitleCount(books, "Moby Dick") = 0
            /\ Find(books, <<[field |-> "title", op |-> "eq", value |-> "Moby Dick"]>>) = <<>>

\* C6 witness: the delete has just removed the only 'Moby Dick' of a
\* collection of at least three records.
C6_Witness ==
    /\ pc = "inStockAndRecent"
    /\ TitleCount(prev, "Moby Dick") = 1
    /\ Len(prev) >= 3
    /\ deleteResult.deletedCount = 1

\* --------------------------------------------------------------- C7
Updated == "updateResult" \in Range(issued) /\ thrown # "updateResult"

FirstTitled(coll, t) == CHOOSE i \in 1..Len(coll) :
    coll[i].title = t /\ \A j \in 1..(i - 1) : coll[j].title # t

\* C7: when a record titled 'The Hobbit' exists, the update matches it and
\* sets its price to 15.99 leaving everything else as it was, the re-read
\* returns that record with the new price, and applying the same update again
\* reports a match without a modification and changes no later read.
C7_UpdateVisibleAndIdempotent ==
    /\ (pc = "updatedHobbit" /\ TitleCount(prev, "The Hobbit") >= 1) =>
            LET i == FirstTitled(prev, "The Hobbit")
            IN  /\ updateResult.matchedCount = 1
                /\ updateResult.modifiedCount = IF prev[i].price = 1599 THEN 0 ELSE 1
                /\ books = [prev EXCEPT ![i] = [prev[i] EXCEPT !.price = 1599]]
    /\ (pc = "deleteResult" /\ TitleCount(prev, "The Hobbit") >= 1) =>
            /\ updatedHobbit = [prev[FirstTitled(prev, "The Hobbit")] EXCEPT !.price = 1599]
            /\ updatedHobbit = books[FirstTitled(books, "The Hobbit")]
    /\ (Updated /\ TitleCount(books, "The Hobbit") >= 1) =>
            LET again == UpdateOne(books, HobbitFilter, HobbitPatch)
            IN  /\ again.matchedCount = 1
                /\ again.modifiedCount = 0
                /\ again.books = books
                /\ FindOne(again.books, HobbitFilter) = FindOne(books, HobbitFilter)

\* C7 witness: the re-read has returned a Hobbit at 15.99 that cost something
\* else before, in a collection with other records.
C7_Witness ==
    /\ pc = "deleteResult"
    /\ TitleCount(prev, "The Hobbit") >= 1
    /\ prev[FirstTitled(prev, "The Hobbit")].price # 1599
    /\ updatedHobbit.price = 1599
    /\ Len(books) >= 3

\* --------------------------------------------------------- C8, C10
\* The report of the title query is on stdout / that of the compound query is.
TitleReported == pc = "explainCompoundSearch"

CompoundReported == pc = "finally" /\ thrown = "none"

\* C8: once the title index exists the report on the title query names
\* IXSCAN as the scan stage, classifies it as an index scan and never names
\* COLLSCAN; the same for the compound query once the compound index exists.
C8_IndexedQueryReportsIndexScan ==
    /\ (TitleReported /\ TitleIndex \in indexes) =>
            /\ out.scanStage = "IXSCAN"
            /\ out.analysis = <<"index scan (IXSCAN)">>
            /\ "COLLSCAN" \notin {out.winningStage, out.scanStage}
    /\ (CompoundReported /\ CompoundIndex \in indexes) =>
            /\ out.scanStage = "IXSCAN"
            /\ out.analysis = <<"index scan (IXSCAN)">>
            /\ "COLLSCAN" \notin {out.winningStage, out.scanStage}

\* C8 witness: both index creations succeeded in this run and the report on
\* the compound query names a fetch over an index scan.
C8_Witness ==
    /\ CompoundReported
    /\ IndexErrors = <<>>
    /\ indexes = {TitleIndex, CompoundIndex}
    /\ out.winningStage = "FETCH"
    /\ out.scanStage = "IXSCAN"

\* C10: for every explain result passed to analyzePlan, the stage examined
\* is the input stage of the top-level stage when it has one and the
\* top-level stage otherwise, and the report always carries a classification
\* (index scan or full collection scan), whatever the examined stage's name.
C10_ReportAlwaysClassifies ==
    (TitleReported \/ CompoundReported) =>
        LET top == explainPlan.executionStats.executionStages
        IN  /\ out.winningStage = top.stage
            /\ out.scanStage = IF "inputStage" \in DOMAIN top
                               THEN top.inputStage.stage ELSE top.stage
            /\ Len(out.analysis) = 1
            /\ out.analysis[1] \in {"index scan (IXSCAN)", "collection scan (COLLSCAN)"}

\* --------------------------------------------------------------- C9
Ids(coll) == {coll[i]._id : i \in 1..Len(coll)}

\* One step of the workflow changes the records only as Task 2 may.
FrameStep ==
    /\ pc \notin {"updateResult", "deleteResult"} => books' = books
    /\ pc = "updateResult" =>
            /\ Len(books') = Len(books)
            /\ Cardinality({i \in 1..Len(books) : books'[i] # books[i]}) <= 1
            /\ \A i \in 1..Len(books) : books'[i] = [books[i] EXCEPT !.price = books'[i].price]
    /\ pc = "deleteResult" =>
            \E gone \in SUBSET (1..Len(books)) :
                /\ Cardinality(gone) <= 1
                /\ books' = SelectSeq(books, LAMBDA d : \A i \in gone : d # books[i])
    /\ Ids(books') \subseteq Ids(books)

\* Against the collection the run started with: no new record, at most one
\* record gone, at most one record of the rest different, and only in price.
FrameSoFar ==
    /\ Ids(books) \subseteq Ids(books0)
    /\ Cardinality(Ids(books0) \ Ids(books)) <= 1
    /\ Cardinality({d \in Range(books) : d \notin Range(books0)}) <= 1
    /\ \A d \in Range(books) : \E e \in Range(books0) : d = [e EXCEPT !.price = d.price]
    /\ pc \in {"connect", "fictionBooks", "recentBooks", "orwellBooks", "updateResult"}
            => books = books0

\* C9: over a whole run the records change only in Task 2, by one price set
\* and one removal at most; no call creates a record and Tasks 3, 4 and 5
\* (index creation and plan inspection included) leave every record as it is.
C9_OnlyTask2Writes == [][FrameStep]_vars /\ []FrameSoFar

\* C9 witness: a complete run that created both indexes, changed the price
\* of one record and removed another.
C9_Witness ==
    /\ pc = "done"
    /\ thrown = "none"
    /\ IndexErrors = <<>>
    /\ Cardinality(Ids(books0) \ Ids(books)) = 1
    /\ Cardinality({d \in Range(books) : d \notin Range(books0)}) = 1

====
